---- MODULE Spec2Model ----
(***************************************************************************)
(* Model of the QR deep-link utility:                                      *)
(*   - generate_qrcodes.py       : CLI script, one QR/URL per CSV row      *)
(*   - streamlit_geostatistics.py: dashboard, detail view by ?point=<id>,  *)
(*                                 password-gated admin tab that builds    *)
(*                                 the QR URLs in the browser              *)
(*                                                                         *)
(* Text is a sequence of atoms.  An atom is one character ("/", "?", "&",  *)
(* "=", ".", "-", "_", " ", a digit) or a word that holds none of these    *)
(* ("point", "app", "https:").  String operations of the code (f-string    *)
(* concatenation, rstrip, replace, int(), parse_qs) work atom by atom.     *)
(*                                                                         *)
(* Numbers of the CSV are kept in hundredths (20.5 is 2050, 1 is 100).     *)
(***************************************************************************)
EXTENDS Integers, Sequences, FiniteSets, TLC

VARIABLES
    csv,            \* data/points.csv on disk (never written by the program)
    authenticated,  \* st.session_state.authenticated
    pc,             \* "idle": page cleared, script about to run; "rendered"
    out,            \* what the last script run of the dashboard rendered
    cli             \* what the last run of generate_qrcodes.py produced

vars == <<csv, authenticated, pc, out, cli>>

-----------------------------------------------------------------------------
(* Bounds *)

MaxRows == 2        \* rows of the CSV
MaxIdLen == 2       \* atoms of the text a request carries under ?point=

-----------------------------------------------------------------------------
(* Text helpers *)

Digits == <<"0", "1", "2", "3", "4", "5", "6", "7", "8", "9">>

DigitAtoms == {Digits[i] : i \in 1..10}

DigitValue(a) == (CHOOSE i \in 1..10 : Digits[i] = a) - 1

RECURSIVE NatText(_)
\* str(n) for a natural number n
NatText(n) ==
    IF n < 10 THEN <<Digits[n + 1]>>
    ELSE NatText(n \div 10) \o <<Digits[(n % 10) + 1]>>

Abs(n) == IF n < 0 THEN -n ELSE n

SignText(h) == IF h < 0 THEN <<"-">> ELSE <<>>

\* str() of an integer cell (value in hundredths, a multiple of 100)
IntText(h) == SignText(h) \o NatText(Abs(h) \div 100)

\* str() of a float cell: shortest repr, always with a fractional part
FloatText(h) ==
    LET a == Abs(h)
        fr == a % 100
        frac == IF fr % 10 = 0 THEN <<Digits[(fr \div 10) + 1]>>
                ELSE <<Digits[(fr \div 10) + 1], Digits[(fr % 10) + 1]>>
    IN SignText(h) \o NatText(a \div 100) \o <<".">> \o frac

\* format(v, ".2f")
Fixed2Text(h) ==
    LET a == Abs(h)
        fr == a % 100
    IN SignText(h) \o NatText(a \div 100) \o <<".">>
         \o <<Digits[(fr \div 10) + 1], Digits[(fr % 10) + 1]>>

\* format(v, ".1f"); the data holds no value whose hundredths digit is 5
Fixed1Text(h) ==
    LET t == (Abs(h) + 5) \div 10
    IN SignText(h) \o NatText(t \div 10) \o <<".">> \o <<Digits[(t % 10) + 1]>>

RECURSIVE RStrip(_, _)
\* s.rstrip(ch): every trailing ch is removed
RStrip(s, ch) ==
    IF Len(s) > 0 /\ s[Len(s)] = ch THEN RStrip(SubSeq(s, 1, Len(s) - 1), ch)
    ELSE s

\* s.replace(a, b)
Replace(s, a, b) == [i \in 1..Len(s) |-> IF s[i] = a THEN b ELSE s[i]]

\* index of the first atom equal to ch, 0 when there is none
IndexOf(s, ch) ==
    IF \E i \in 1..Len(s) : s[i] = ch
    THEN CHOOSE i \in 1..Len(s) : s[i] = ch /\ \A j \in 1..(i - 1) : s[j] # ch
    ELSE 0

StartsWith(s, p) == Len(s) >= Len(p) /\ SubSeq(s, 1, Len(p)) = p

RECURSIVE Split(_, _)
\* s.split(ch)
Split(s, ch) ==
    LET i == IndexOf(s, ch)
    IN IF i = 0 THEN <<s>>
       ELSE <<SubSeq(s, 1, i - 1)>> \o Split(SubSeq(s, i + 1, Len(s)), ch)

RECURSIVE SeqsUpTo(_, _)
\* every sequence over S of length at most n
SeqsUpTo(S, n) ==
    IF n = 0 THEN {<<>>}
    ELSE LET shorter == SeqsUpTo(S, n - 1)
         IN shorter \cup {Append(s, a) : s \in shorter, a \in S}

-----------------------------------------------------------------------------
(* Column names and query keys, as text *)

PointID == <<"PointID">>
UID == <<"UID">>
Latitude == <<"Latitude">>
Longitude == <<"Longitude">>
Clay_percent == <<"Clay", "_", "percent">>
P_ppm == <<"P", "_", "ppm">>
K_ppm == <<"K", "_", "ppm">>
NDVI == <<"NDVI">>
pH == <<"pH">>
All == <<"All">>

\* the metric fields of the selectbox and of the detail view
MetricFields == <<Clay_percent, P_ppm, K_ppm, NDVI, pH>>

\* the labels the "all metrics" branch of show_point_detail uses
MetricLabels ==
    <<<<"Clay", " ", "%">>, <<"P", " ", "(ppm)">>, <<"K", " ", "(ppm)">>,
      <<"NDVI">>, <<"pH">>>>

-----------------------------------------------------------------------------
(* Cells, CSV files and what pandas makes of them *)

IntCell(n) == [k |-> "int", h |-> n * 100, s |-> <<>>]
FloatCell(h) == [k |-> "float", h |-> h, s |-> <<>>]
StrCell(s) == [k |-> "str", h |-> 0, s |-> s]

BaseCols == {PointID, Clay_percent, P_ppm, K_ppm, NDVI, pH}

\* the column sets a points.csv comes with
ColumnSets ==
    {BaseCols, BaseCols \cup {UID}, BaseCols \cup {Latitude, Longitude}}

MkRow(id, uid, clay, p, k, ndvi, ph, lat, lon) ==
    (PointID :> id) @@ (UID :> uid) @@ (Clay_percent :> clay) @@ (P_ppm :> p)
      @@ (K_ppm :> k) @@ (NDVI :> ndvi) @@ (pH :> ph)
      @@ (Latitude :> lat) @@ (Longitude :> lon)

\* the rows a points.csv is made of: PointID is an integer and the metrics
\* are numbers; the first and the last row share a PointID; the last two rows
\* hold whole numbers only (but for the coordinates)
RowPool ==
    { MkRow(IntCell(1), StrCell(<<"A", "1">>), FloatCell(2050), IntCell(25),
            IntCell(180), FloatCell(65), FloatCell(620),
            FloatCell(-3198), FloatCell(11582)),
      MkRow(IntCell(10), IntCell(8), IntCell(22), IntCell(31),
            IntCell(210), IntCell(0), IntCell(6),
            FloatCell(-3197), FloatCell(11583)),
      MkRow(IntCell(1), IntCell(7), IntCell(20), IntCell(30),
            IntCell(200), IntCell(1), IntCell(7),
            FloatCell(-3196), FloatCell(11584)) }

Restrict(f, S) == [c \in S |-> f[c]]

\* a file on disk: present or not, its header and its rows in file order
CsvFiles ==
    {[exists |-> FALSE, cols |-> {}, rows |-> <<>>]}
      \cup {[exists |-> TRUE, cols |-> cs,
             rows |-> [i \in 1..Len(rs) |-> Restrict(rs[i], cs)]] :
              cs \in ColumnSets, rs \in SeqsUpTo(RowPool, MaxRows)}

\* the dtype read_csv infers for a column
ColDtype(rows, c) ==
    IF Len(rows) = 0 \/ \E i \in 1..Len(rows) : rows[i][c].k = "str"
    THEN "object"
    ELSE IF \E i \in 1..Len(rows) : rows[i][c].k = "float" THEN "float64"
    ELSE "int64"

\* f"{cell}"
CellText(cell) ==
    CASE cell.k = "int" -> IntText(cell.h)
      [] cell.k = "float" -> FloatText(cell.h)
      [] OTHER -> cell.s

\* a cell as a column of the given dtype holds it
AsDtype(cell, dtype) ==
    CASE dtype = "object" ->
            IF cell.k = "str" THEN cell ELSE StrCell(CellText(cell))
      [] dtype = "float64" -> FloatCell(cell.h)
      [] OTHER -> cell

\* pd.read_csv of a file that exists: every column gets one dtype
read_csv(file) ==
    [cols |-> file.cols,
     rows |-> [i \in 1..Len(file.rows) |->
                 [c \in file.cols |->
                    AsDtype(file.rows[i][c], ColDtype(file.rows, c))]]]

\* pd.DataFrame(): no columns, no rows
EmptyFrame == [cols |-> {}, rows |-> <<>>]

\* df.drop(columns=[...], errors="ignore")
DropColumns(df, drop) ==
    [cols |-> df.cols \ drop,
     rows |-> [i \in 1..Len(df.rows) |-> Restrict(df.rows[i], df.cols \ drop)]]

\* the dtype of the Series that iterrows() and iloc[i] make of a row: the
\* common dtype of the columns
RowDtype(df) ==
    IF df.cols = {} \/ \E c \in df.cols : ColDtype(df.rows, c) = "object"
    THEN "object"
    ELSE IF \E c \in df.cols : ColDtype(df.rows, c) = "float64" THEN "float64"
    ELSE "int64"

\* row i of df as a Series: in a frame of numeric columns only, every value is
\* upcast to the common dtype
RowSeries(df, i) ==
    LET dt == RowDtype(df)
    IN [c \in df.cols |->
          IF dt = "float64" THEN FloatCell(df.rows[i][c].h) ELSE df.rows[i][c]]

\* load_data(): the frame, and whether "Data file not found" was shown
load_data(file) ==
    IF file.exists
    THEN [df |-> DropColumns(read_csv(file), {Latitude, Longitude}),
          fileError |-> FALSE]
    ELSE [df |-> EmptyFrame, fileError |-> TRUE]

-----------------------------------------------------------------------------
(* Query strings *)

\* one name=value piece of a query string, as parse_qsl splits it with
\* keep_blank_values=True: a piece without "=" gets the value ''
ParsePair(piece) ==
    LET i == IndexOf(piece, "=")
    IN IF i = 0 THEN <<piece, <<>>>>
       ELSE <<SubSeq(piece, 1, i - 1), SubSeq(piece, i + 1, Len(piece))>>

RECURSIVE ParsePieces(_)
ParsePieces(pieces) ==
    IF Len(pieces) = 0 THEN <<>>
    ELSE IF Len(Head(pieces)) = 0 THEN ParsePieces(Tail(pieces))
    ELSE <<ParsePair(Head(pieces))>> \o ParsePieces(Tail(pieces))

\* st.experimental_get_query_params(): the (key, value) pairs of the query
\* string in order; query_params[key] is the list of the values under key
experimental_get_query_params(qs) == ParsePieces(Split(qs, "&"))

\* key in query_params
HasKey(qp, key) == \E i \in 1..Len(qp) : qp[i][1] = key

\* query_params[key][0]
FirstValue(qp, key) ==
    qp[CHOOSE i \in 1..Len(qp) :
          qp[i][1] = key /\ \A j \in 1..(i - 1) : qp[j][1] # key][2]

\* the query string the browser sends for a URL: what follows the first "?"
QueryOf(url) ==
    LET i == IndexOf(url, "?")
    IN IF i = 0 THEN <<>> ELSE SubSeq(url, i + 1, Len(url))

\* int() without the check that a digit follows the sign
IsIntText_SignOnly(t) ==
    LET body == IF Len(t) > 0 /\ t[1] = "-" THEN Tail(t) ELSE t
    IN Len(t) > 0 /\ \A i \in 1..Len(body) : body[i] \in DigitAtoms

\* whether int(text) returns (it raises ValueError otherwise): an optional
\* sign and at least one digit
IsIntText(t) ==
    LET body == IF Len(t) > 0 /\ t[1] = "-" THEN Tail(t) ELSE t
    IN Len(body) > 0 /\ \A i \in 1..Len(body) : body[i] \in DigitAtoms

RECURSIVE NatValue(_)
NatValue(ds) ==
    IF Len(ds) = 0 THEN 0
    ELSE 10 * NatValue(SubSeq(ds, 1, Len(ds) - 1)) + DigitValue(ds[Len(ds)])

\* int(text), for a text int() accepts
IntValue(t) == IF t[1] = "-" THEN -NatValue(Tail(t)) ELSE NatValue(t)

-----------------------------------------------------------------------------
(* What a script run renders *)

ADMIN_PASSWORD == "changeme"

NoRow == [c \in {} |-> IntCell(0)]

NoVia == [kind |-> "direct", row |-> 0, url |-> <<>>]

\* the page after st.title and load_data, before anything else is drawn
Page(qs, fileError, via) ==
    [query |-> qs,               \* the query string of the request
     via |-> via,                \* the QR code the request came from, if any
     fileError |-> fileError,    \* st.error("Data file not found ...")
     errors |-> {},              \* the other st.error messages
     notFoundId |-> <<>>,        \* the id in "Point <id> not found"
     detail |-> FALSE,           \* show_point_detail was called
     point |-> NoRow,            \* the row it was called with
     header |-> <<>>,            \* the id in "Point <id> - Field Data"
     metrics |-> <<>>,           \* the st.metric calls
     loginShown |-> FALSE,       \* the Admin Login form
     pwd |-> "",                 \* what the form's text_input held
     loginPressed |-> FALSE,     \* st.button("Login") returned True
     success |-> FALSE,          \* st.success("Logged in successfully")
     adminShown |-> FALSE,       \* show_admin_interface was called
     urls |-> <<>>,              \* the URLs handed to generate_qr_code
     base |-> <<>>,              \* the Base URL field when they were built
     raised |-> "none"]          \* the exception that ended the run, if any

Metric(field, label, value, text) ==
    [field |-> field, label |-> label, value |-> value, text |-> text]

\* show_point_detail(point): the page with the detail of the Series point on
\* it.  The metric columns of the data are numeric, so the float formats
\* never raise.
show_point_detail(page, point, qp) ==
    LET header == CellText(point[PointID])
        param == <<"param">>
        absent == ~HasKey(qp, param)
        selected_param == IF absent THEN <<>> ELSE FirstValue(qp, param)
        drawn == [page EXCEPT !.detail = TRUE, !.point = point,
                              !.header = header]
    IN IF absent \/ selected_param = <<>> \/ selected_param = All
       THEN [drawn EXCEPT !.metrics =
               << Metric(Clay_percent, MetricLabels[1], point[Clay_percent].h,
                         CellText(point[Clay_percent]) \o <<"%">>),
                  Metric(P_ppm, MetricLabels[2], point[P_ppm].h,
                         CellText(point[P_ppm]) \o <<" ", "ppm">>),
                  Metric(K_ppm, MetricLabels[3], point[K_ppm].h,
                         CellText(point[K_ppm]) \o <<" ", "ppm">>),
                  Metric(NDVI, MetricLabels[4], point[NDVI].h,
                         Fixed2Text(point[NDVI].h)),
                  Metric(pH, MetricLabels[5], point[pH].h,
                         Fixed1Text(point[pH].h)) >>]
       ELSE IF selected_param \notin DOMAIN point
       THEN [drawn EXCEPT !.raised = "KeyError"]
       ELSE LET label == Replace(selected_param, "_", " ")
                value == point[selected_param]
                fmt == CASE selected_param = NDVI -> Fixed2Text(value.h)
                         [] selected_param = pH -> Fixed1Text(value.h)
                         [] selected_param = Clay_percent ->
                                CellText(value) \o <<"%">>
                         [] OTHER -> CellText(value)
            IN [drawn EXCEPT !.metrics =
                          <<Metric(selected_param, label, value.h, fmt)>>]

\* the URL show_admin_interface builds for a row
AdminURL(base_url, point_id, param) ==
    IF param = All
    THEN base_url \o <<"?", "point", "=">> \o CellText(point_id)
    ELSE base_url \o <<"?", "point", "=">> \o CellText(point_id)
           \o <<"&", "param", "=">> \o param

\* show_admin_interface(df): w holds the widgets' values
show_admin_interface(page, df, w) ==
    LET shown == [page EXCEPT !.adminShown = TRUE]
    IN IF w.generate
       THEN [shown EXCEPT
               !.base = w.base_url,
               !.urls = [i \in 1..Len(df.rows) |->
                           AdminURL(w.base_url, RowSeries(df, i)[PointID],
                                    w.param)]]
       ELSE shown

-----------------------------------------------------------------------------
(* The dashboard's main() *)

\* df[df['PointID'] == point_id]: the indices of the rows that match
Matching(df, point_id) ==
    {i \in 1..Len(df.rows) :
        df.rows[i][PointID].k # "str" /\ df.rows[i][PointID].h = point_id * 100}

Min(S) == CHOOSE x \in S : \A y \in S : x <= y
Max(S) == CHOOSE x \in S : \A y \in S : x >= y

\* iloc[-1] in place of iloc[0]
LastMatch(df, point_id) == Max(Matching(df, point_id))

\* the row of df that point_data.iloc[0] is
FirstMatch(df, point_id) == Min(Matching(df, point_id))

\* the branch of main() taken when 'point' is in the query parameters
PointBranch(page, df, qp) ==
    LET text == FirstValue(qp, <<"point">>)
    IN IF ~IsIntText(text)
       THEN [page EXCEPT !.errors = {"Invalid point ID"}]
       ELSE IF PointID \notin df.cols
       THEN [page EXCEPT !.raised = "KeyError"]
       ELSE LET point_id == IntValue(text)
            IN IF Matching(df, point_id) # {}
               THEN show_point_detail(
                        page, RowSeries(df, FirstMatch(df, point_id)), qp)
               ELSE [page EXCEPT !.errors = {"not found"},
                                 !.notFoundId = IntText(point_id * 100)]

\* the password comparison left out
LoginAccepted_AnyPassword(w) == w.login

\* whether the Login press of this run sets the session flag
LoginAccepted(w) == w.login /\ w.pwd = ADMIN_PASSWORD

\* the session flag after the login form of main() has run
AfterLogin(auth, w) == auth \/ LoginAccepted(w)

\* the branch of main() taken otherwise: the login form, then the admin
\* interface when the session is authenticated
AdminBranch(page, df, auth, w) ==
    LET form == IF auth THEN page
                ELSE [page EXCEPT
                        !.loginShown = TRUE,
                        !.pwd = w.pwd,
                        !.loginPressed = w.login,
                        !.success = LoginAccepted(w),
                        !.errors = IF w.login /\ ~LoginAccepted(w)
                                   THEN {"Incorrect password"} ELSE {}]
    IN IF AfterLogin(auth, w) THEN show_admin_interface(form, df, w)
       ELSE form

\* the script's key tested in place of the dashboard's
WantsDetail_uid(qp) == HasKey(qp, <<"uid">>)

\* whether main() takes the single-record branch
WantsDetail(qp) == HasKey(qp, <<"point">>)

\* main(): one script run, for the request's query string and the widgets'
\* values; the page it renders and the session flag it leaves
main(file, auth, qs, via, w) ==
    LET ld == load_data(file)
        qp == experimental_get_query_params(qs)
        page == Page(qs, ld.fileError, via)
    IN IF WantsDetail(qp)
       THEN [page |-> PointBranch(page, ld.df, qp), authenticated |-> auth]
       ELSE [page |-> AdminBranch(page, ld.df, auth, w),
             authenticated |-> AfterLogin(auth, w)]

-----------------------------------------------------------------------------
(* generate_qrcodes.py *)

\* one trailing slash stripped and the query appended directly
CliURL_StripOne(base_url, uid) ==
    (IF Len(base_url) > 0 /\ base_url[Len(base_url)] = "/"
     THEN SubSeq(base_url, 1, Len(base_url) - 1) ELSE base_url)
      \o <<"?", "uid", "=">> \o CellText(uid)

\* the URL main() of the script builds for a row
CliURL(base_url, uid) ==
    RStrip(base_url, "/") \o <<"/", "?", "uid", "=">> \o CellText(uid)

NoCli == [ran |-> FALSE, base |-> <<>>, urls |-> <<>>, raised |-> "none"]

\* main(csv_path, base_url, out_dir): the URLs handed to generate_qr, or the
\* exception that ends the script
generate_qrcodes_main(file, base_url) ==
    IF ~file.exists
    THEN [ran |-> TRUE, base |-> base_url, urls |-> <<>>,
          raised |-> "FileNotFoundError"]
    ELSE LET df == read_csv(file)
         IN IF Len(df.rows) > 0 /\ UID \notin df.cols
            THEN [ran |-> TRUE, base |-> base_url, urls |-> <<>>,
                  raised |-> "KeyError"]
            ELSE [ran |-> TRUE, base |-> base_url,
                  urls |-> [i \in 1..Len(df.rows) |->
                              CliURL(base_url, RowSeries(df, i)[UID])],
                  raised |-> "none"]

-----------------------------------------------------------------------------
(* Inputs *)

Scheme == <<"https:", "/", "/">>

\* the base URLs a caller gives
BaseURLs ==
    { Scheme \o <<"app.example", "/">>,
      Scheme \o <<"app.example">>,
      <<"app.example">>,
      <<"http:", "/", "/", "app.example", "/", "/">> }

\* the texts a request carries under ?point=
IdAtoms == {"0", "1", "-", ".", "A"}
IdTexts == SeqsUpTo(IdAtoms, MaxIdLen)

\* the values a request carries under &param= (Absent: no such key)
Absent == <<"<absent>">>
ParamTexts ==
    {Absent, <<>>, All, Clay_percent, P_ppm, K_ppm, NDVI, pH, PointID,
     <<"foo">>}

ParamSuffix(key, v) == IF v = Absent THEN <<>> ELSE <<key, "=">> \o v

DetailQuery(t, p) ==
    <<"point", "=">> \o t \o
        (IF p = Absent THEN <<>> ELSE <<"&">> \o ParamSuffix("param", p))

\* the identifiers every value of param is tried with: two the data may
\* hold, one it never holds
FilteredIdTexts == {<<"1">>, <<"1", "0">>, <<"0">>}

\* the query strings of the requests a browser sends by hand
DetailQueries ==
    {DetailQuery(t, p) : t \in IdTexts, p \in {Absent, <<"foo">>}}
      \cup {DetailQuery(t, p) : t \in FilteredIdTexts, p \in ParamTexts}

PlainQueries == {ParamSuffix("param", p) : p \in {Absent, NDVI}}

Passwords == {ADMIN_PASSWORD, "wrong", ""}

SelectOptions == {All} \cup {MetricFields[i] : i \in 1..Len(MetricFields)}

\* the widgets' values in one run: one button press at most starts a run
Widgets ==
    {w \in [pwd : Passwords, login : BOOLEAN, base_url : BaseURLs,
            param : SelectOptions, generate : BOOLEAN] :
        ~(w.login /\ w.generate)}

NoWidgets ==
    [pwd |-> "", login |-> FALSE, base_url |-> Scheme \o <<"app.example", "/">>,
     param |-> All, generate |-> FALSE]

-----------------------------------------------------------------------------
(* The state machine *)

Init ==
    /\ csv \in CsvFiles
    /\ authenticated = FALSE
    /\ pc = "idle"
    /\ out = Page(<<>>, FALSE, NoVia)
    /\ cli = NoCli

Run(qs, via, w) ==
    LET r == main(csv, authenticated, qs, via, w)
    IN /\ out' = r.page
       /\ authenticated' = r.authenticated
       /\ pc' = "rendered"
       /\ UNCHANGED <<csv, cli>>

\* a request for the detail of a point, typed or linked by hand
DetailRequest ==
    /\ pc = "idle"
    /\ \E qs \in DetailQueries : Run(qs, NoVia, NoWidgets)

\* a request without a point: the login form and the admin interface
AdminRequest ==
    /\ pc = "idle"
    /\ \E qs \in PlainQueries, w \in Widgets : Run(qs, NoVia, w)

\* a QR code of the admin tab is scanned: the browser opens its URL
ScanAdminQR ==
    /\ pc = "rendered"
    /\ \E i \in 1..Len(out.urls) :
          Run(QueryOf(out.urls[i]),
              [kind |-> "admin", row |-> i, url |-> out.urls[i]], NoWidgets)

\* the script is run from the command line
CliRun ==
    /\ pc = "idle"
    /\ \E b \in BaseURLs : cli' = generate_qrcodes_main(csv, b)
    /\ pc' = "cli"
    /\ UNCHANGED <<csv, authenticated, out>>

\* a QR code the script wrote is scanned
ScanCliQR ==
    /\ pc = "cli"
    /\ \E i \in 1..Len(cli.urls) :
          Run(QueryOf(cli.urls[i]),
              [kind |-> "cli", row |-> i, url |-> cli.urls[i]], NoWidgets)

\* the page is left: the next script run starts from an empty page
Clear ==
    /\ pc # "idle"
    /\ pc' = "idle"
    /\ out' = Page(<<>>, FALSE, NoVia)
    /\ cli' = NoCli
    /\ UNCHANGED <<csv, authenticated>>

Next ==
    \/ DetailRequest
    \/ AdminRequest
    \/ ScanAdminQR
    \/ CliRun
    \/ ScanCliQR
    \/ Clear

Spec == Init /\ [][Next]_vars

-----------------------------------------------------------------------------
(* Vocabulary of the properties *)

Rendered == pc = "rendered"

\* the query parameters of the request the page answers
ReqParams == experimental_get_query_params(out.query)

HasPoint == HasKey(ReqParams, <<"point">>)

PointText == FirstValue(ReqParams, <<"point">>)

\* a text that is a decimal integer: digits, after an optional sign
DecimalInteger(t) ==
    /\ Len(t) > 0
    /\ \A i \in 2..Len(t) : t[i] \in DigitAtoms
    /\ t[1] \in DigitAtoms \/ (t[1] = "-" /\ Len(t) > 1)

\* the rows of the file whose PointID is id, by position in the file
RowsWithId(id) ==
    {i \in 1..Len(csv.rows) : csv.rows[i][PointID].h = id * 100}

UniqueIds ==
    \A i, j \in 1..Len(csv.rows) :
        csv.rows[i][PointID] = csv.rows[j][PointID] => i = j

\* the page shows the numbers of row i of the file
ShowsRow(i) ==
    /\ out.detail
    /\ \A c \in BaseCols : out.point[c].h = csv.rows[i][c].h

HasScheme(url) ==
    StartsWith(url, <<"https:", "/", "/">>) \/ StartsWith(url, <<"http:", "/", "/">>)

\* base without its trailing slashes
WithoutTrailingSlashes(base) ==
    LET n == CHOOSE n \in 0..Len(base) :
                /\ \A j \in (n + 1)..Len(base) : base[j] = "/"
                /\ n > 0 => base[n] # "/"
    IN SubSeq(base, 1, n)

WithoutOneTrailingSlash(base) ==
    IF Len(base) > 0 /\ base[Len(base)] = "/"
    THEN SubSeq(base, 1, Len(base) - 1) ELSE base

\* the text the script's loop formats for the UID of row i of the file
UidText(i) == CellText(RowSeries(read_csv(csv), i)[UID])

-----------------------------------------------------------------------------
(* C1: link round-trip through the dashboard.  For every record r of a
   store (here: one whose identifiers are unique) and every choice of the
   parameter selector, the URL the admin tab builds for r, opened in the
   dashboard, carries r's identifier back unchanged and ends in the detail
   view of r, not in "Invalid point ID" and not in "not found". *)
C1_AdminLinkRoundTrip ==
    (Rendered /\ out.via.kind = "admin" /\ UniqueIds) =>
        /\ HasPoint
        /\ DecimalInteger(PointText)
        /\ IntValue(PointText) * 100 = csv.rows[out.via.row][PointID].h
        /\ ShowsRow(out.via.row)
        /\ out.errors = {}

(* C2: a deep link written by the script, opened in the dashboard, puts the
   identifier under the key main() tests for, so that the request takes the
   single-record detail path. *)
C2_CliLinkShowsDetail ==
    (Rendered /\ out.via.kind = "cli") =>
        /\ HasPoint
        /\ ~out.loginShown
        /\ ~out.adminShown

(* C3, as stated: the script strips one trailing slash from the base and
   appends the query directly: the URL is (base without one trailing slash),
   "?uid=" and the identifier. *)
C3_CliStripsOneSlash ==
    (pc = "cli" /\ cli.raised = "none") =>
        \A i \in 1..Len(cli.urls) :
            cli.urls[i] = WithoutOneTrailingSlash(cli.base)
                            \o <<"?", "uid", "=">> \o UidText(i)

(* C3, amended: the script strips every trailing slash from the base and
   appends "/?uid=" and the identifier as the row formats it; for base
   https://app.example/ and identifier A1 the URL is
   https://app.example/?uid=A1. *)
C3_CliURLShape ==
    (pc = "cli" /\ cli.raised = "none") =>
        /\ Len(cli.urls) = Len(csv.rows)
        /\ \A i \in 1..Len(cli.urls) :
            /\ cli.urls[i] = WithoutTrailingSlashes(cli.base)
                               \o <<"/", "?", "uid", "=">> \o UidText(i)
            /\ (/\ cli.base = <<"https:", "/", "/", "app.example", "/">>
                /\ csv.rows[i][UID] = StrCell(<<"A", "1">>))
               => cli.urls[i] = <<"https:", "/", "/", "app.example", "/",
                                  "?", "uid", "=", "A", "1">>

C3_Witness ==
    /\ pc = "cli"
    /\ Len(cli.urls) = 2
    /\ cli.base = <<"http:", "/", "/", "app.example", "/", "/">>
    /\ cli.urls[1] = <<"http:", "/", "/", "app.example", "/",
                       "?", "uid", "=", "A", "1">>

(* C4: every URL handed to the QR encoder carries an explicit scheme, in the
   script and in the admin tab: a base without http:// or https:// gets
   https:// prefixed. *)
C4_UrlsCarryScheme ==
    /\ \A i \in 1..Len(out.urls) : HasScheme(out.urls[i])
    /\ \A i \in 1..Len(cli.urls) : HasScheme(cli.urls[i])

(* C5: lookup by identifier returns the record.  A request whose point
   parameter is the identifier of a record of the file shows the first
   record in file order that has this identifier (the record itself when
   identifiers are unique). *)
C5_LookupShowsFirstMatch ==
    (Rendered /\ HasPoint /\ DecimalInteger(PointText)) =>
        LET rows == RowsWithId(IntValue(PointText))
        IN rows # {} =>
             /\ \E i \in rows : ShowsRow(i) /\ \A j \in rows : i <= j
             /\ out.errors = {}

C5_Witness ==
    /\ Rendered
    /\ out.via.kind = "direct"
    /\ HasPoint
    /\ PointText = <<"1">>
    /\ Cardinality(RowsWithId(1)) = 2
    /\ csv.rows[1] # csv.rows[2]
    /\ ShowsRow(1)

(* C6: a lookup with a well-formed identifier that no record has ends in the
   "not found" message and never in an unhandled error, for every store,
   the empty dataset of a missing CSV file included. *)
C6_AbsentIdEndsInNotFound ==
    (Rendered /\ HasPoint /\ DecimalInteger(PointText)
       /\ RowsWithId(IntValue(PointText)) = {}) =>
        /\ "not found" \in out.errors
        /\ out.raised = "none"

(* C7: a request whose point parameter is not parseable as an integer ends
   in "Invalid point ID": no record detail, no "not found", no login form
   and no admin interface in that request. *)
C7_InvalidIdentifier ==
    (Rendered /\ HasPoint /\ ~DecimalInteger(PointText)) =>
        /\ out.errors = {"Invalid point ID"}
        /\ ~out.detail
        /\ out.metrics = <<>>
        /\ ~out.loginShown
        /\ ~out.adminShown
        /\ out.raised = "none"

C7_Witness ==
    /\ Rendered
    /\ HasPoint
    /\ PointText = <<"1", ".">>
    /\ csv.exists
    /\ Len(csv.rows) > 0
    /\ authenticated
    /\ out.errors = {"Invalid point ID"}

(* C8, as stated: the query string alone selects the display mode: with the
   identifier key the admin/login view is never rendered, without it the
   admin/listing view is shown. *)
C8_ModeByQueryAlone ==
    Rendered =>
        /\ HasPoint => ~out.loginShown /\ ~out.adminShown
        /\ ~HasPoint => out.adminShown

(* C8, amended: with the identifier key the request takes the single-record
   path and neither the login form nor the admin interface is rendered,
   whatever the session flag is; without the key the request never takes the
   single-record path, and it renders the admin/listing view exactly when
   the session flag is true by the end of the request and the login form
   alone otherwise. *)
C8_ModeByQueryAndSession ==
    Rendered =>
        /\ HasPoint =>
             /\ ~out.loginShown
             /\ ~out.adminShown
             /\ out.detail \/ out.errors # {} \/ out.raised # "none"
        /\ ~HasPoint =>
             /\ ~out.detail
             /\ out.errors \subseteq {"Incorrect password"}
             /\ out.adminShown <=> authenticated
             /\ ~out.adminShown => out.loginShown

C8_Witness ==
    /\ Rendered
    /\ authenticated
    /\ HasPoint
    /\ out.detail
    /\ ~out.adminShown

(* C9: the metric filter of the detail view.  With param one of the five
   metric fields, exactly one metric is displayed and it is that field of
   the record; with param absent, empty or All, all five are displayed; with
   any other param the request still ends in a user-visible result, not in
   an unhandled error. *)
C9_MetricFilter ==
    (Rendered /\ out.detail) =>
        LET param == <<"param">>
            given == HasKey(ReqParams, param)
            value == IF given THEN FirstValue(ReqParams, param) ELSE <<>>
            fields == {MetricFields[i] : i \in 1..Len(MetricFields)}
        IN /\ value \in fields =>
                /\ Len(out.metrics) = 1
                /\ out.metrics[1].field = value
                /\ out.metrics[1].value = out.point[value].h
           /\ (~given \/ value = <<>> \/ value = All) =>
                /\ Len(out.metrics) = 5
                /\ \A i \in 1..5 :
                     /\ out.metrics[i].field = MetricFields[i]
                     /\ out.metrics[i].value = out.point[MetricFields[i]].h
           /\ out.raised = "none"

(* C10: the admin gate over any sequence of requests of a session.  The flag
   starts false; it becomes true only in a request where Login is pressed
   with the password equal to ADMIN_PASSWORD, and the admin interface is
   rendered in that same request; it never returns to false; the admin
   interface is rendered only with the flag true; a wrong password leaves
   the flag unchanged. *)
C10_AdminGate ==
    /\ authenticated = FALSE
    /\ [][ /\ authenticated => authenticated'
           /\ (~authenticated /\ authenticated') =>
                /\ out'.loginPressed
                /\ out'.pwd = "changeme"
                /\ out'.adminShown
           /\ out'.adminShown => authenticated'
           /\ (out'.loginPressed /\ out'.pwd = "changeme") =>
                authenticated' /\ out'.adminShown
           /\ (out'.loginPressed /\ out'.pwd # "changeme") =>
                /\ authenticated' = authenticated
                /\ "Incorrect password" \in out'.errors
         ]_vars

C10_Witness ==
    /\ Rendered
    /\ out.loginPressed
    /\ out.pwd = "changeme"
    /\ out.adminShown
    /\ authenticated

====
